---- MODULE Spec2Model ----
(***************************************************************************)
(* noop-allocator: NoopAllocator (src/lib.rs) and the owning-handle        *)
(* factories of owning_ref.rs / owning_slice.rs.                           *)
(*                                                                         *)
(* SpecAlloc : a caller invoking the Allocator methods of NoopAllocator    *)
(*             directly, with arbitrary pointers and layouts.              *)
(* Spec      : a borrowed slot wrapped into an OwningRef (Box) or an       *)
(*             OwningSlice (Vec) and used through the container's API.     *)
(*                                                                         *)
(* Element types are sized and of non-zero size (ElemTypes); memory is     *)
(* modelled per element cell: a cell holds a live value or "uninit".       *)
(***************************************************************************)
EXTENDS Integers, Sequences, FiniteSets, TLC

\* ---------------------------------------------------------------- bounds
MaxSize == 2          \* layout sizes of direct calls: 0..MaxSize
MaxAddr == 3          \* pointers of direct calls: 1..MaxAddr (non-null)
MaxCap  == 2          \* element count of a borrowed slice slot: 0..MaxCap
MaxArg  == 2          \* `additional` / `len` arguments of reserve, truncate

Aligns    == {1, 2}
Vals      == {"a", "b"}
Uninit    == "uninit"
ElemTypes == {[size |-> 1, align |-> 1], [size |-> 2, align |-> 2]}
Layouts   == [size : 0..MaxSize, align : Aligns]
Ptrs      == 1..MaxAddr

VARIABLES
    debug_assertions,  \* cfg(debug_assertions) of the build
    elem,              \* Layout of the element type T
    slotKind,          \* "single" (&mut MaybeUninit<T>), "manual" (&mut ManuallyDrop<T>), "slice"
    slot0,             \* the slot's cells as the caller handed them over
    mem,               \* the slot's cells now
    h,                 \* the handle: kind, ptr, len, cap
    pc,                \* "none", "live", "dropped", "alloc_error"
    made,              \* which factory built the handle, with its arguments
    ret,               \* what the last container operation returned
    dropped,           \* values whose destructor the last operation ran, in order
    freed,             \* addresses handed back to a real free
    lastCall,          \* the last Allocator call and its result
    realloc,           \* some allocate(size > 0) or size-increasing grow returned Ok
    oob,               \* an element access fell outside the slot
    phase,             \* position in the "pop* push*" usage pattern since construction
    probe              \* one earlier Allocator call, remembered with its result

vars == <<debug_assertions, elem, slotKind, slot0, mem, h, pc, made, ret,
          dropped, freed, lastCall, realloc, oob, phase, probe>>

\* ------------------------------------------------------- plain helpers
Max(a, b) == IF a >= b THEN a ELSE b

RECURSIVE BitAnd(_, _)
BitAnd(a, b) ==
    IF a = 0 \/ b = 0 THEN 0
    ELSE (IF a % 2 = 1 /\ b % 2 = 1 THEN 1 ELSE 0) + 2 * BitAnd(a \div 2, b \div 2)

NoLayout == [size |-> 0, align |-> 1]
Ok(addr, len) == [tag |-> "Ok", addr |-> addr, len |-> len]
AllocError == [tag |-> "AllocError", addr |-> 0, len |-> 0]
Panic == [tag |-> "Panic", addr |-> 0, len |-> 0]
Unit == [tag |-> "Unit", addr |-> 0, len |-> 0]

Call(op, ptr, old, new, res) ==
    [op |-> op, ptr |-> ptr, old |-> old, new |-> new, res |-> res]
NoCall == Call("none", 0, NoLayout, NoLayout, Unit)

\* ------------------------------------------- NoopAllocator (src/lib.rs)
dangling(layout) == layout.align

allocate_null(layout) ==
    IF layout.size = 0 THEN Ok(1, 0) ELSE AllocError

allocate_once(layout) ==
    IF layout.size = 0 THEN Ok(dangling(layout), 0)
    ELSE IF lastCall = NoCall THEN Ok(dangling(layout), layout.size)
    ELSE AllocError

allocate(layout) ==
    IF layout.size = 0 THEN Ok(dangling(layout), 0) ELSE AllocError

allocate_zeroed(layout) == allocate(layout)

deallocate_frees(f, ptr, layout) == f \cup {ptr}

deallocate(f, ptr, layout) == f

grow_zeroed_unasserted(ptr, old_layout, new_layout) ==
    IF new_layout.size > old_layout.size
          \/ BitAnd(ptr, new_layout.align - 1) # 0
    THEN AllocError
    ELSE Ok(ptr, new_layout.size)

grow_zeroed_unbounded(ptr, old_layout, new_layout) ==
    IF BitAnd(ptr, new_layout.align - 1) # 0
    THEN AllocError
    ELSE Ok(ptr, new_layout.size)

grow_zeroed(ptr, old_layout, new_layout) ==
    IF debug_assertions /\ ~(new_layout.size >= old_layout.size) THEN Panic
    ELSE IF new_layout.size > old_layout.size
              \/ BitAnd(ptr, new_layout.align - 1) # 0
         THEN AllocError
         ELSE Ok(ptr, new_layout.size)

grow(ptr, old_layout, new_layout) == grow_zeroed(ptr, old_layout, new_layout)

shrink(ptr, old_layout, new_layout) ==
    IF debug_assertions /\ ~(new_layout.size <= old_layout.size) THEN Panic
    ELSE IF new_layout.size > old_layout.size
              \/ BitAnd(ptr, new_layout.align - 1) # 0
         THEN AllocError
         ELSE Ok(ptr, new_layout.size)

\* A successful call that hands out memory the slot does not already back.
Supplies(c) ==
    /\ c.res.tag = "Ok"
    /\ \/ c.op \in {"allocate", "allocate_zeroed"} /\ c.new.size > 0
       \/ c.op \in {"grow", "grow_zeroed"} /\ c.new.size > c.old.size

\* -------------------------------------------------- the borrowed slot
SlotAddr == 2 * elem.align
SlotLen == Len(slot0)
ArrayLayout(n) == [size |-> n * elem.size, align |-> elem.align]
AddrOf(ptr, i) == ptr + i * elem.size
InSlot(ptr, i) ==
    /\ AddrOf(ptr, i) >= SlotAddr
    /\ AddrOf(ptr, i) + elem.size <= SlotAddr + SlotLen * elem.size

NoHandle == [kind |-> "none", ptr |-> 0, len |-> 0, cap |-> 0]
NoMade == [ctor |-> "none", length |-> 0, value |-> Uninit]
NoRet == [op |-> "none", val |-> <<>>]
NoPhase == [at |-> "off", pops |-> 0, pushes |-> <<>>]

\* ------------------------------- owning_ref.rs: OwningRef = Box<T, NoopAllocator>
BoxOver(addr, n) == [kind |-> "box", ptr |-> addr, len |-> n, cap |-> n]

owning_ref_from_manuallydrop(m, addr) == [mem |-> m, h |-> BoxOver(addr, 1)]

owning_ref_from_maybeuninit(m, addr) == [mem |-> m, h |-> BoxOver(addr, 1)]

owning_ref_from_maybeuninit_nowrite(m, addr, value) ==
    [mem |-> m, h |-> BoxOver(addr, 1)]

owning_ref_from_maybeuninit_write(m, addr, value) ==
    [mem |-> [m EXCEPT ![1] = value], h |-> BoxOver(addr, 1)]

owning_ref_from_maybeuninit_slice(m, addr) == [mem |-> m, h |-> BoxOver(addr, Len(m))]

\* --------------------------- owning_slice.rs: OwningSlice = Vec<T, NoopAllocator>
VecOver(addr, length, capacity) ==
    [kind |-> "vec", ptr |-> addr, len |-> length, cap |-> capacity]

owning_slice_from_maybeuninit(m, addr) == VecOver(addr, 1, 1)

owning_slice_from_maybeuninit_slice_tight(m, addr, length) ==
    VecOver(addr, length, length)

owning_slice_from_maybeuninit_slice(m, addr, length) ==
    VecOver(addr, length, Len(m))

owning_slice_empty_from_maybeuninit(m, addr) == VecOver(addr, 0, 1)

owning_slice_empty_from_maybeuninit_slice_one(m, addr) == VecOver(addr, 0, 1)

owning_slice_empty_from_maybeuninit_slice(m, addr) == VecOver(addr, 0, Len(m))

\* ------------------------------------------------ direct Allocator use
InitAlloc ==
    /\ debug_assertions \in BOOLEAN
    /\ elem = [size |-> 1, align |-> 1]
    /\ slotKind = "slice"
    /\ slot0 = <<"a", Uninit>>
    /\ mem = slot0
    /\ h = owning_slice_from_maybeuninit_slice(slot0, SlotAddr, 1)
    /\ pc = "live"
    /\ made = [ctor |-> "owning_slice::from_maybeuninit_slice", length |-> 1,
               value |-> Uninit]
    /\ ret = NoRet
    /\ dropped = <<>>
    /\ freed = {}
    /\ lastCall = NoCall
    /\ realloc = FALSE
    /\ oob = FALSE
    /\ phase = NoPhase
    /\ probe = NoCall

\* The requests whose first result is remembered for later comparison.
Watched(c) ==
    /\ c.ptr \in {0, 2}
    /\ c.old = [size |-> 1, align |-> 1]
    /\ c.new.size <= 1 /\ c.new.align = 1

Direct(c, f) ==
    /\ lastCall' = c
    /\ freed' = f
    /\ \/ probe' = probe
       \/ probe = NoCall /\ Watched(c) /\ probe' = c
    /\ realloc' = (realloc \/ Supplies(c))
    /\ UNCHANGED <<debug_assertions, elem, slotKind, slot0, mem, h, pc, made,
                   ret, dropped, oob, phase>>

CallAllocate ==
    \E l \in Layouts : Direct(Call("allocate", 0, l, l, allocate(l)), freed)

CallAllocateZeroed ==
    \E l \in Layouts :
        Direct(Call("allocate_zeroed", 0, l, l, allocate_zeroed(l)), freed)

CallDeallocate ==
    \E p \in Ptrs, l \in Layouts :
        Direct(Call("deallocate", p, l, l, Unit), deallocate(freed, p, l))

CallGrow ==
    \E p \in Ptrs, o \in Layouts, n \in Layouts :
        Direct(Call("grow", p, o, n, grow(p, o, n)), freed)

CallGrowZeroed ==
    \E p \in Ptrs, o \in Layouts, n \in Layouts :
        Direct(Call("grow_zeroed", p, o, n, grow_zeroed(p, o, n)), freed)

CallShrink ==
    \E p \in Ptrs, o \in Layouts, n \in Layouts :
        Direct(Call("shrink", p, o, n, shrink(p, o, n)), freed)

NextAlloc ==
    \/ CallAllocate
    \/ CallAllocateZeroed
    \/ CallDeallocate
    \/ CallGrow
    \/ CallGrowZeroed
    \/ CallShrink

SpecAlloc == InitAlloc /\ [][NextAlloc]_vars


\* ------------------------------------------------------- slot set-up
Cells == Vals \cup {Uninit}
SeqsOf(S, n) == [1..n -> S]
Initialized(m, n) == \A i \in 1..n : m[i] # Uninit

Init ==
    /\ debug_assertions \in BOOLEAN
    /\ elem \in ElemTypes
    /\ slotKind \in {"single", "manual", "slice"}
    /\ \/ slotKind = "single" /\ slot0 \in SeqsOf(Cells, 1)
       \/ slotKind = "manual" /\ slot0 \in SeqsOf(Vals, 1)
       \/ slotKind = "slice" /\ \E n \in 0..MaxCap : slot0 \in SeqsOf(Cells, n)
    /\ mem = slot0
    /\ h = NoHandle
    /\ pc = "none"
    /\ made = NoMade
    /\ ret = NoRet
    /\ dropped = <<>>
    /\ freed = {}
    /\ lastCall = NoCall
    /\ realloc = FALSE
    /\ oob = FALSE
    /\ phase = NoPhase
    /\ probe = NoCall

Fixed == <<debug_assertions, elem, slotKind, slot0, probe>>

Construct(name, length, value, m, hh) ==
    /\ pc = "none"
    /\ pc' = "live"
    /\ mem' = m
    /\ h' = hh
    /\ made' = [ctor |-> name, length |-> length, value |-> value]
    /\ ret' = [op |-> name, val |-> <<>>]
    /\ phase' = IF hh.kind = "vec"
                THEN [at |-> "pop", pops |-> 0, pushes |-> <<>>]
                ELSE NoPhase
    /\ UNCHANGED <<Fixed, dropped, freed, lastCall, realloc, oob>>

RefFromManuallydrop ==
    /\ slotKind = "manual"
    /\ LET r == owning_ref_from_manuallydrop(mem, SlotAddr)
       IN Construct("owning_ref::from_manuallydrop", 1, mem[1], r.mem, r.h)

RefFromMaybeuninit ==
    /\ slotKind = "single" /\ Initialized(mem, 1)
    /\ LET r == owning_ref_from_maybeuninit(mem, SlotAddr)
       IN Construct("owning_ref::from_maybeuninit", 1, mem[1], r.mem, r.h)

RefFromMaybeuninitWrite ==
    /\ slotKind = "single"
    /\ \E v \in Vals :
         LET r == owning_ref_from_maybeuninit_write(mem, SlotAddr, v)
         IN Construct("owning_ref::from_maybeuninit_write", 1, v, r.mem, r.h)

RefFromMaybeuninitSlice ==
    /\ slotKind = "slice" /\ Initialized(mem, Len(mem))
    /\ LET r == owning_ref_from_maybeuninit_slice(mem, SlotAddr)
       IN Construct("owning_ref::from_maybeuninit_slice", Len(mem), Uninit, r.mem, r.h)

SliceFromMaybeuninit ==
    /\ slotKind = "single" /\ Initialized(mem, 1)
    /\ Construct("owning_slice::from_maybeuninit", 1, Uninit, mem,
                 owning_slice_from_maybeuninit(mem, SlotAddr))

SliceFromMaybeuninitSlice ==
    /\ slotKind = "slice"
    /\ \E length \in 0..Len(mem) :
         /\ Initialized(mem, length)
         /\ Construct("owning_slice::from_maybeuninit_slice", length, Uninit, mem,
                      owning_slice_from_maybeuninit_slice(mem, SlotAddr, length))

SliceEmptyFromMaybeuninit ==
    /\ slotKind = "single"
    /\ Construct("owning_slice::empty_from_maybeuninit", 0, Uninit, mem,
                 owning_slice_empty_from_maybeuninit(mem, SlotAddr))

SliceEmptyFromMaybeuninitSlice ==
    /\ slotKind = "slice"
    /\ Construct("owning_slice::empty_from_maybeuninit_slice", 0, Uninit, mem,
                 owning_slice_empty_from_maybeuninit_slice(mem, SlotAddr))


\* --------------------------------------------- element access through the handle
CellOf(ptr, i) == ((AddrOf(ptr, i) - SlotAddr) \div elem.size) + 1
ReadAt(m, ptr, i) == IF InSlot(ptr, i) THEN m[CellOf(ptr, i)] ELSE Uninit
WriteAt(m, ptr, i, v) ==
    IF InSlot(ptr, i) THEN [m EXCEPT ![CellOf(ptr, i)] = v] ELSE m
Outside(ptr, from, to) == \E i \in from..(to - 1) : ~InSlot(ptr, i)

RECURSIVE ReadRange(_, _, _, _)
ReadRange(m, ptr, from, to) ==
    IF from >= to THEN <<>>
    ELSE <<ReadAt(m, ptr, from)>> \o ReadRange(m, ptr, from + 1, to)

RECURSIVE ClearRange(_, _, _, _)
ClearRange(m, ptr, from, to) ==
    IF from >= to THEN m
    ELSE ClearRange(WriteAt(m, ptr, from, Uninit), ptr, from + 1, to)

\* ------------------------------------ Vec<T, NoopAllocator>: RawVec growth
MinNonZeroCap == IF elem.size = 1 THEN 8 ELSE IF elem.size <= 1024 THEN 4 ELSE 1

\* RawVec::grow_amortized + finish_grow: the requested capacity and the
\* Allocator call that asks for it.
GrowAmortized(hh, additional) ==
    LET required == hh.len + additional
        newcap == Max(Max(hh.cap * 2, required), MinNonZeroCap)
        new_layout == ArrayLayout(newcap)
        old_layout == ArrayLayout(hh.cap)
    IN [cap |-> newcap,
        call |-> IF hh.cap = 0
                 THEN Call("allocate", 0, new_layout, new_layout, allocate(new_layout))
                 ELSE Call("grow", hh.ptr, old_layout, new_layout,
                           grow(hh.ptr, old_layout, new_layout))]

Grown(hh, g) == [hh EXCEPT !.ptr = g.call.res.addr, !.cap = g.cap]
Failure(res) == IF res.tag = "Panic" THEN "panicked" ELSE "alloc_error"

IsVec == pc = "live" /\ h.kind = "vec"
IsBox == pc = "live" /\ h.kind = "box"

Push ==
    /\ IsVec
    /\ \E v \in Vals :
         LET full == h.len = h.cap
             g == GrowAmortized(h, 1)
             failed == full /\ g.call.res.tag # "Ok"
             h1 == IF full /\ ~failed THEN Grown(h, g) ELSE h
         IN /\ lastCall' = IF full THEN g.call ELSE lastCall
            /\ realloc' = (realloc \/ (full /\ Supplies(g.call)))
            /\ dropped' = <<>>
            /\ phase' = IF phase.at = "pop" /\ phase.pops = made.length
                        THEN [at |-> "push", pops |-> phase.pops, pushes |-> <<v>>]
                        ELSE IF phase.at = "push"
                        THEN [phase EXCEPT !.pushes = Append(@, v)]
                        ELSE NoPhase
            /\ IF failed
               THEN /\ pc' = Failure(g.call.res)
                    /\ ret' = [op |-> "push", val |-> <<"failed">>]
                    /\ UNCHANGED <<h, mem, oob>>
               ELSE /\ pc' = pc
                    /\ ret' = [op |-> "push", val |-> <<>>]
                    /\ mem' = WriteAt(mem, h1.ptr, h1.len, v)
                    /\ oob' = (oob \/ ~InSlot(h1.ptr, h1.len))
                    /\ h' = [h1 EXCEPT !.len = @ + 1]
            /\ UNCHANGED <<Fixed, made, freed>>

Pop ==
    /\ IsVec
    /\ dropped' = <<>>
    /\ phase' = IF phase.at = "pop" /\ phase.pops < made.length
                THEN [phase EXCEPT !.pops = @ + 1]
                ELSE NoPhase
    /\ IF h.len = 0
       THEN /\ ret' = [op |-> "pop", val |-> <<>>]
            /\ UNCHANGED <<h, mem, oob>>
       ELSE /\ ret' = [op |-> "pop", val |-> <<ReadAt(mem, h.ptr, h.len - 1)>>]
            /\ mem' = WriteAt(mem, h.ptr, h.len - 1, Uninit)
            /\ oob' = (oob \/ ~InSlot(h.ptr, h.len - 1))
            /\ h' = [h EXCEPT !.len = @ - 1]
    /\ UNCHANGED <<Fixed, pc, made, freed, lastCall, realloc>>

Truncate ==
    /\ IsVec
    /\ \E n \in 0..MaxArg :
         /\ ret' = [op |-> "truncate", val |-> <<>>]
         /\ phase' = NoPhase
         /\ IF n > h.len
            THEN /\ dropped' = <<>>
                 /\ UNCHANGED <<h, mem, oob>>
            ELSE /\ dropped' = ReadRange(mem, h.ptr, n, h.len)
                 /\ mem' = ClearRange(mem, h.ptr, n, h.len)
                 /\ oob' = (oob \/ Outside(h.ptr, n, h.len))
                 /\ h' = [h EXCEPT !.len = n]
    /\ UNCHANGED <<Fixed, pc, made, freed, lastCall, realloc>>

Index ==
    /\ IsVec
    /\ \E i \in 0..MaxCap :
         /\ dropped' = <<>>
         /\ phase' = NoPhase
         /\ IF i < h.len
            THEN /\ ret' = [op |-> "index", val |-> <<ReadAt(mem, h.ptr, i)>>]
                 /\ oob' = (oob \/ ~InSlot(h.ptr, i))
            ELSE /\ ret' = [op |-> "index", val |-> <<"panic">>]
                 /\ oob' = oob
    /\ UNCHANGED <<Fixed, pc, made, h, mem, freed, lastCall, realloc>>

\* Vec::reserve (fallible = FALSE) and Vec::try_reserve (fallible = TRUE).
ReserveWith(name, fallible) ==
    \E additional \in 1..MaxArg :
        LET short == h.cap - h.len < additional
            g == GrowAmortized(h, additional)
            failed == short /\ g.call.res.tag # "Ok"
        IN /\ lastCall' = IF short THEN g.call ELSE lastCall
           /\ realloc' = (realloc \/ (short /\ Supplies(g.call)))
           /\ dropped' = <<>>
           /\ phase' = NoPhase
           /\ ret' = [op |-> name, val |-> IF failed THEN <<"failed">> ELSE <<>>]
           /\ pc' = IF failed /\ (~fallible \/ g.call.res.tag = "Panic")
                    THEN Failure(g.call.res) ELSE pc
           /\ h' = IF short /\ ~failed THEN Grown(h, g) ELSE h
           /\ UNCHANGED <<Fixed, made, mem, freed, oob>>

Reserve == IsVec /\ ReserveWith("reserve", FALSE)

TryReserve == IsVec /\ ReserveWith("try_reserve", TRUE)

\* Vec::shrink_to_fit -> RawVec::shrink_unchecked
ShrinkToFit ==
    /\ IsVec
    /\ dropped' = <<>>
    /\ phase' = NoPhase
    /\ LET old_layout == ArrayLayout(h.cap)
           new_layout == ArrayLayout(h.len)
           res == shrink(h.ptr, old_layout, new_layout)
       IN IF h.cap > h.len
          THEN IF h.len = 0
               THEN /\ lastCall' = Call("deallocate", h.ptr, old_layout, old_layout, Unit)
                    /\ freed' = deallocate(freed, h.ptr, old_layout)
                    /\ h' = [h EXCEPT !.ptr = dangling(elem), !.cap = 0]
                    /\ ret' = [op |-> "shrink_to_fit", val |-> <<>>]
                    /\ pc' = pc
               ELSE /\ lastCall' = Call("shrink", h.ptr, old_layout, new_layout, res)
                    /\ freed' = freed
                    /\ h' = IF res.tag = "Ok"
                            THEN [h EXCEPT !.ptr = res.addr, !.cap = h.len]
                            ELSE h
                    /\ ret' = [op |-> "shrink_to_fit",
                               val |-> IF res.tag = "Ok" THEN <<>> ELSE <<"failed">>]
                    /\ pc' = IF res.tag = "Ok" THEN pc ELSE Failure(res)
          ELSE /\ ret' = [op |-> "shrink_to_fit", val |-> <<>>]
               /\ UNCHANGED <<lastCall, freed, h, pc>>
    /\ UNCHANGED <<Fixed, made, mem, realloc, oob>>

\* Dropping either handle: element destructors, then Allocator::deallocate
\* when the handle has storage of non-zero size.
DropHandle(name) ==
    LET layout == ArrayLayout(h.cap)
    IN /\ pc' = "dropped"
       /\ dropped' = ReadRange(mem, h.ptr, 0, h.len)
       /\ mem' = ClearRange(mem, h.ptr, 0, h.len)
       /\ oob' = (oob \/ Outside(h.ptr, 0, h.len))
       /\ ret' = [op |-> name, val |-> <<>>]
       /\ phase' = NoPhase
       /\ IF layout.size # 0
          THEN /\ lastCall' = Call("deallocate", h.ptr, layout, layout, Unit)
               /\ freed' = deallocate(freed, h.ptr, layout)
          ELSE UNCHANGED <<lastCall, freed>>
       /\ UNCHANGED <<Fixed, made, h, realloc>>

DropVec == IsVec /\ DropHandle("drop_vec")

DropBox == IsBox /\ DropHandle("drop_box")

Deref ==
    /\ IsBox
    /\ ret' = [op |-> "deref", val |-> ReadRange(mem, h.ptr, 0, h.len)]
    /\ oob' = (oob \/ Outside(h.ptr, 0, h.len))
    /\ dropped' = <<>>
    /\ UNCHANGED <<Fixed, pc, made, h, mem, freed, lastCall, realloc, phase>>

Next ==
    \/ RefFromManuallydrop
    \/ RefFromMaybeuninit
    \/ RefFromMaybeuninitWrite
    \/ RefFromMaybeuninitSlice
    \/ SliceFromMaybeuninit
    \/ SliceFromMaybeuninitSlice
    \/ SliceEmptyFromMaybeuninit
    \/ SliceEmptyFromMaybeuninitSlice
    \/ Push
    \/ Pop
    \/ Truncate
    \/ Index
    \/ Reserve
    \/ TryReserve
    \/ ShrinkToFit
    \/ DropVec
    \/ DropBox
    \/ Deref

Spec == Init /\ [][Next]_vars


\* ===================================================================== claims
IsResize(c) == c.op \in {"grow", "grow_zeroed", "shrink"}
IsGrow(c) == c.op \in {"grow", "grow_zeroed"}
IsAllocate(c) == c.op \in {"allocate", "allocate_zeroed"}
Fits(c) == c.new.size <= c.old.size /\ c.ptr % c.new.align = 0
SameRequest(c, d) ==
    c.op = d.op /\ c.ptr = d.ptr /\ c.old = d.old /\ c.new = d.new
Holds == h.kind # "none"
Contents == ReadRange(mem, h.ptr, 0, h.len)
Prefix(s, n) == SubSeq(s, 1, n)

\* C1: grow, grow_zeroed and shrink return Ok(ptr, new_layout.size) exactly
\* when new_layout.size <= old_layout.size and ptr is a multiple of
\* new_layout.align, and AllocError in every other case.
C1_ResizeSucceedsIffFits ==
    IsResize(lastCall) =>
        lastCall.res = IF Fits(lastCall)
                       THEN Ok(lastCall.ptr, lastCall.new.size)
                       ELSE AllocError

\* C2: allocate and allocate_zeroed succeed exactly for size 0, then with a
\* zero-length block at a non-null address that is a multiple of the
\* alignment; for size > 0 they return AllocError.
C2_AllocateIffZeroSize ==
    IsAllocate(lastCall) =>
        IF lastCall.new.size = 0
        THEN /\ lastCall.res.tag = "Ok"
             /\ lastCall.res.len = 0
             /\ lastCall.res.addr # 0
             /\ lastCall.res.addr % lastCall.new.align = 0
        ELSE lastCall.res = AllocError

C2_Witness ==
    /\ lastCall.op = "allocate_zeroed"
    /\ lastCall.new = [size |-> 0, align |-> 2]
    /\ lastCall.res.tag = "Ok"

\* C3: a handle built empty over a slot of C elements takes exactly C
\* pushes (length k after the k-th, capacity C throughout, the pushed values
\* stored in order); push C+1 stores nothing and ends in an AllocError
\* returned by the NoopAllocator.
EmptyBuilt ==
    made.ctor \in {"owning_slice::empty_from_maybeuninit",
                   "owning_slice::empty_from_maybeuninit_slice"}

C4_CapacityIsSlotLen ==
    (h.kind = "vec" /\ pc = "live") => h.len <= h.cap /\ h.cap = SlotLen

\* C4 (amended): length <= capacity <= C in every state; capacity is C at
\* construction and changes only in shrink_to_fit, which lowers it to the
\* current length.
C4_CapacityOnlyShrinks ==
    [][h'.kind = "vec" =>
          /\ h'.len <= h'.cap
          /\ h'.cap <= SlotLen
          /\ pc = "none" => h'.cap = SlotLen
          /\ pc # "none" =>
               \/ h'.cap = h.cap
               \/ ret'.op = "shrink_to_fit" /\ h'.cap = h.len /\ h.len < h.cap]_vars

C4_Witness ==
    /\ h.kind = "vec" /\ pc = "live"
    /\ ret.op = "shrink_to_fit"
    /\ h.len > 0 /\ h.cap = h.len /\ h.cap < SlotLen

\* C5 (as stated): the handle's storage address is the slot's address in
\* every state, and no element access falls outside the slot.
C5_StorageIsSlot ==
    Holds => h.ptr = SlotAddr /\ ~oob

\* C5 (amended): no element access falls outside the slot and no call ever
\* supplies other memory; the storage address is the slot's address whenever
\* the capacity is non-zero, and otherwise it is the slot's address or, after
\* shrink_to_fit on an empty handle, the dangling aligned address.
C5_StorageIsSlotWhileCapacity ==
    Holds =>
        /\ ~oob
        /\ ~realloc
        /\ freed = {}
        /\ h.cap > 0 => h.ptr = SlotAddr
        /\ h.ptr # SlotAddr => h.len = 0 /\ h.ptr = dangling(elem)

C5_Witness ==
    /\ h.kind = "vec" /\ pc = "live"
    /\ ret.op = "push"
    /\ SlotLen >= 2 /\ h.len = SlotLen
    /\ h.ptr = SlotAddr

\* C6: a handle built over a slot of C elements with the first L assumed
\* initialized has length L, capacity C and those L elements in order; L
\* pops return them last to first and leave it empty with capacity C; the
\* next C pushes succeed in the slot, with no allocate or growing grow
\* succeeding.
AssumedBuilt ==
    made.ctor \in {"owning_slice::from_maybeuninit",
                   "owning_slice::from_maybeuninit_slice"}

C7_WriteThenReadThenDropOnce ==
    made.ctor = "owning_ref::from_maybeuninit_write" =>
        /\ h.kind = "box" /\ h.ptr = SlotAddr /\ h.len = 1
        /\ freed = {} /\ ~oob /\ ~realloc
        /\ pc = "live" => mem[1] = made.value /\ dropped = <<>>
        /\ ret.op = "deref" => ret.val = <<made.value>>
        /\ pc = "dropped" => dropped = <<made.value>> /\ mem[1] = Uninit

C7_Witness ==
    /\ made.ctor = "owning_ref::from_maybeuninit_write"
    /\ slot0[1] \in Vals /\ slot0[1] # made.value
    /\ pc = "dropped"
    /\ lastCall.op = "deallocate"

\* C8: deallocate returns normally for every pointer and layout and changes
\* nothing: memory, the set of freed addresses and the handle stay as they
\* were, and a request repeated after it gets the result it got before.
C8_DeallocateChangesNothing ==
    /\ [][lastCall'.op = "deallocate" =>
             /\ lastCall'.res = Unit
             /\ mem' = mem /\ freed' = freed /\ h' = h /\ pc' = pc]_vars
    /\ [](SameRequest(probe, lastCall) => probe.res = lastCall.res)

C8_Witness ==
    /\ lastCall.op = "deallocate"
    /\ lastCall.ptr = 3 /\ lastCall.new = [size |-> 2, align |-> 2]
    /\ probe.op = "shrink"
    /\ freed = {}

====
